---- MODULE Spec2Model ----
(***************************************************************************)
(* Resumable ingestion of a chat export (scripts/ingest_sparky_export.py): *)
(* SparkyExportProcessor with its progress file, the memory table it       *)
(* inserts into, and the processes that run it one after the other.        *)
(***************************************************************************)
EXTENDS Integers, Sequences, FiniteSets, TLC

\* ------------------------------------------------------------- bounds
\* processes started one after the other on the same progress file and store
MaxRuns == 2
\* nodes of one conversation's mapping
MaxMsgs == 4

\* ------------------------------------------------- program constants
batch_size == 3
max_retries == 3
save_every == 5

\* ------------------------------------------------------------ inputs
\* A message is its content; equal contents have equal md5 digests, so the
\* content stands for generate_content_hash(content).  "short" is any content
\* under min_content_length, which extract_messages_from_conversation drops.
Contents == {"a", "b"}
RawContents == Contents \cup {"short"}
ConvIds == {"c1", "c2"}

SeqsUpTo(S, n) == UNION {[1..k -> S] : k \in 0..n}

\* a conversation of the export: its conversation_id and the nodes of its mapping
\* in order, or "mapping": null, which has no nodes to walk
Conversations ==
    [id : ConvIds, msgs : SeqsUpTo(RawContents, MaxMsgs), mapping : {"dict"}]
        \cup [id : ConvIds, msgs : {<<>>}, mapping : {"null"}]

\* what a conversation takes of the MaxMsgs bound: its nodes, one for a null mapping
Size(conv) == IF conv.mapping = "null" THEN 1 ELSE Len(conv.msgs)

RECURSIVE TotalMsgs(_)
TotalMsgs(convs) ==
    IF convs = <<>> THEN 0
    ELSE Size(Head(convs)) + TotalMsgs(Tail(convs))

RECURSIVE AllMsgs(_)
AllMsgs(convs) ==
    IF convs = <<>> THEN <<>>
    ELSE Head(convs).msgs \o AllMsgs(Tail(convs))

\* Contents and ids are opaque to the program, so exports are taken up to renaming:
\* the first conversation is "c1" and the first storable content is "a"
Canonical(e) ==
    LET kept == SelectSeq(AllMsgs(e), LAMBDA m : m \in Contents)
    IN /\ e[1].id = "c1"
       /\ kept # <<>> => kept[1] = "a"

\* as many conversations as there are ids to tell them apart
MaxConvs == Cardinality(ConvIds)

\* conversations.json: one or two conversations, MaxMsgs nodes in all
Exports ==
    {e \in SeqsUpTo(Conversations, MaxConvs) :
        Len(e) >= 1 /\ TotalMsgs(e) <= MaxMsgs /\ Canonical(e)}

VARIABLES
    export,                    \* conversations.json, the same for every run
    progressFile,              \* sparky_ingestion_progress.json on disk
    store,                     \* memory table: content hash -> records holding it
    run,                       \* processes started so far
    exitCode,                  \* how the last process ended (-1: none ended yet / running)
    pc,                        \* where the main coroutine stands
    processed_conversations,
    processed_messages,
    current_processed_messages,
    current_skipped_messages,
    current_failed_inserts,
    remaining,                 \* remaining_conversations of process_export_folder
    idx,                       \* position of the for loop over remaining
    messages,                  \* extracted messages of the conversation in progress
    i,                         \* offset of the batch in progress
    conversation_success,
    tasks,                     \* the coroutines handed to asyncio.gather
    \* history variables, read by the properties only
    loadedOk,                  \* load_progress of this run read a well-formed or absent file
    clean,                     \* no process was killed or interrupted so far
    convFailed,                \* store operations of this conversation that returned False
    convAwaited,               \* store operations of this conversation that returned
    fullyAwaited,              \* conversation ids whose every batch was awaited in some call
    wholeBatchHashes,          \* hashes stored in batches that were awaited and tallied
    interruptedAt,             \* the in-memory sets at the moment of a user abort
    \* src/memory/loader.py: BatchMemoryLoader over one file
    chunks,                    \* chunk_text(content) of the file
    loader_pc,                 \* where process_file stands
    chunk_i,                   \* offset of the batch in progress
    chunk_tasks,               \* the store_chunk_with_retry coroutines of the batch
    memory_rows,               \* rows the loader's inserts left in the memory table
    total_chunks,
    successful_inserts,
    failed_inserts,
    skipped_chunks,
    loader_exit,               \* exit code of the loader's main (-1: still running)
    inserts_issued,            \* history: embeddings ever sent in an insert
    \* src/memory/loader.py: one call of chunk_text
    text,                      \* the words of clean_text(text), single spaces between
    max_tokens,
    space_tokens,              \* what the injected counter charges for one space
    chunker_pc,                \* "off", "called", "returned"
    valid_chunks,              \* what chunk_text returned
    \* scripts/watch_and_load.py: MemoryWatcher over the watch folder
    disk,                      \* the files of the watch folder: path -> content
    logFile,                   \* processed_files.json on disk
    processed_files,           \* MemoryFileHandler.processed_files
    processing_queue,
    existing_files,            \* the list process_existing_files goes through
    watcher_pc,                \* where the watcher's main thread stands
    filepath,                  \* the file process_file_async is called with
    metadata,                  \* load_metadata(filepath) of that call
    returned,                  \* the last call of process_file_async that returned
    \* history variables of the watcher, read by the properties only
    unchanged,                 \* the file is as the execution in progress read it
    stored_times,              \* path -> executions that stored its present content
    event_lost                 \* the last step passed over an accepted event

ingestVars == <<export, progressFile, store, run, exitCode, pc, processed_conversations,
          processed_messages, current_processed_messages, current_skipped_messages,
          current_failed_inserts, remaining, idx, messages, i, conversation_success,
          tasks, loadedOk, clean, convFailed, convAwaited, fullyAwaited,
          wholeBatchHashes, interruptedAt>>

loaderVars == <<chunks, loader_pc, chunk_i, chunk_tasks, memory_rows, total_chunks,
                successful_inserts, failed_inserts, skipped_chunks, loader_exit,
                inserts_issued>>

chunkerVars == <<text, max_tokens, space_tokens, chunker_pc, valid_chunks>>

watcherVars == <<disk, logFile, processed_files, processing_queue, existing_files,
                 watcher_pc, filepath, metadata, returned, unchanged, stored_times,
                 event_lost>>

vars == <<ingestVars, loaderVars, chunkerVars, watcherVars>>

\* what a step of one program leaves alone
notIngestVars == <<loaderVars, chunkerVars, watcherVars>>
notLoaderVars == <<ingestVars, chunkerVars, watcherVars>>
notChunkerVars == <<ingestVars, loaderVars, watcherVars>>
notWatcherVars == <<ingestVars, chunkerVars, chunks, loader_pc, chunk_i, chunk_tasks,
                    memory_rows, loader_exit, inserts_issued>>

NoFile == [state |-> "absent", convs |-> {}, msgs |-> {}]
CorruptFile == [state |-> "corrupt", convs |-> {}, msgs |-> {}]
NoInterrupt == [at |-> "none", conv |-> "none", convs |-> {}, msgs |-> {}]


\* ------------------------------------------------------ pure helpers
\* hashlib.md5(content.encode('utf-8')).hexdigest(): a digest of the content alone
generate_content_hash(content) == <<"md5", content>>

Hashes == {generate_content_hash(c) : c \in Contents}

\* mapping.items() of line 147 raises AttributeError when the mapping is null
ExtractionRaises(conversation) == conversation.mapping = "null"

\* the nodes kept by extract_messages_from_conversation, in mapping order
extract_messages_from_conversation(conversation) ==
    SelectSeq(conversation.msgs, LAMBDA m : m \in Contents)

\* mutant: the test of lines 340-343 never finds the id
is_conversation_processed_never(conversation_id) ==
    FALSE

is_conversation_processed(conversation_id) ==
    conversation_id \in processed_conversations

\* mutant: the duplicate check never finds the hash
is_message_processed_never(message_hash) ==
    FALSE

is_message_processed(message_hash) ==
    message_hash \in processed_messages

\* progress_data.get(key, []): the list under the key, the empty list without it.
\* A well-formed file is a record of its keys: convs is 'processed_conversations',
\* msgs is 'processed_messages'; state tells it from an absent or malformed file.
Get(file, key) ==
    IF key \in DOMAIN file THEN file[key] ELSE {}

\* mutant: a file without one of the two keys is refused like a malformed one
load_progress_strict(file) ==
    IF file.state = "ok" /\ {"convs", "msgs"} \subseteq DOMAIN file
    THEN [convs |-> file.convs, msgs |-> file.msgs]
    ELSE [convs |-> {}, msgs |-> {}]

\* load_progress: the sets read from a well-formed file; an absent file leaves
\* the constructor's empty sets and the except branch resets both to empty
load_progress(file) ==
    IF file.state = "ok"
    THEN [convs |-> Get(file, "convs"), msgs |-> Get(file, "msgs")]
    ELSE [convs |-> {}, msgs |-> {}]

save_progress_without_messages(convs, msgs) ==
    [state |-> "ok", convs |-> convs, msgs |-> {},
     last_updated |-> "now", stats |-> "stats"]

\* save_progress: the file after open(..., 'w') and json.dump have finished
save_progress(convs, msgs) ==
    [state |-> "ok", convs |-> convs, msgs |-> msgs,
     last_updated |-> "now", stats |-> "stats"]

\* store_message_with_retry up to its first await: the duplicate check
StartTask(content) ==
    LET h == generate_content_hash(content) IN
    IF is_message_processed(h)
    THEN [hash |-> h, st |-> "done", attempt |-> 0, calls |-> 0, result |-> TRUE,
          waits |-> <<>>]
    ELSE [hash |-> h, st |-> "pending", attempt |-> 0, calls |-> 0, result |-> FALSE,
          waits |-> <<>>]

DispatchAllLeft(msgs, offset) ==
    [j \in 1..(Len(msgs) - offset) |-> StartTask(msgs[offset + j])]

\* messages[i : i + batch_size] as coroutines given to asyncio.gather
Dispatch(msgs, offset) ==
    LET n == IF Len(msgs) - offset < batch_size THEN Len(msgs) - offset ELSE batch_size
    IN [j \in 1..n |-> StartTask(msgs[offset + j])]

AllDone == \A j \in DOMAIN tasks : tasks[j].st = "done"

\* results of the batch that are truthy (r = TRUE) or falsy (r = FALSE)
Count(r) == Cardinality({j \in DOMAIN tasks : tasks[j].result = r})

\* `if i % (batch_size * 5) == 0` after a batch was tallied
SaveDue(offset) == offset % (batch_size * save_every) = 0

\* ---------------------------------------------------------------- Init
\* no loader process: its state stays as the constructor would leave it
LoaderIdle ==
    /\ chunks = <<>>
    /\ loader_pc = "off"
    /\ chunk_i = 0
    /\ chunk_tasks = <<>>
    /\ memory_rows = {}
    /\ total_chunks = 0
    /\ successful_inserts = 0
    /\ failed_inserts = 0
    /\ skipped_chunks = 0
    /\ loader_exit = -1
    /\ inserts_issued = {}

\* chunk_text is not called
ChunkerIdle ==
    /\ text = <<>>
    /\ max_tokens = 0
    /\ space_tokens = 0
    /\ chunker_pc = "off"
    /\ valid_chunks = <<>>

\* no watcher, an empty watch folder
NoEntries == [k \in {} |-> {}]
NoCall == [file |-> "none", value |-> FALSE]
NoMetadata == [source |-> "none"]

WatcherIdle ==
    /\ disk = NoEntries
    /\ logFile = [state |-> "absent", doc |-> NoEntries]
    /\ processed_files = NoEntries
    /\ processing_queue = <<>>
    /\ existing_files = <<>>
    /\ watcher_pc = "off"
    /\ filepath = "none"
    /\ metadata = NoMetadata
    /\ returned = NoCall
    /\ unchanged = FALSE
    /\ stored_times = NoEntries
    /\ event_lost = FALSE

\* neither chunk_text nor the watcher
OthersIdle ==
    /\ ChunkerIdle
    /\ WatcherIdle

\* no ingestion process yet and an empty memory table
NoIngestProcess ==
    /\ store = [h \in Hashes |-> 0]
    /\ run = 0
    /\ exitCode = -1
    /\ pc = "off"
    /\ processed_conversations = {}
    /\ processed_messages = {}
    /\ current_processed_messages = 0
    /\ current_skipped_messages = 0
    /\ current_failed_inserts = 0
    /\ remaining = <<>>
    /\ idx = 0
    /\ messages = <<>>
    /\ i = 0
    /\ conversation_success = TRUE
    /\ tasks = <<>>
    /\ loadedOk = TRUE
    /\ clean = TRUE
    /\ convFailed = 0
    /\ convAwaited = 0
    /\ fullyAwaited = {}
    /\ wholeBatchHashes = {}
    /\ interruptedAt = NoInterrupt

\* no progress file either
IngestAtRest ==
    /\ progressFile = NoFile
    /\ NoIngestProcess

Init ==
    /\ export \in Exports
    /\ IngestAtRest
    /\ LoaderIdle
    /\ OthersIdle

\* the process is gone: its memory with it
Exited(code) ==
    /\ pc' = "off"
    /\ exitCode' = code
    /\ processed_conversations' = {}
    /\ processed_messages' = {}
    /\ current_processed_messages' = 0
    /\ current_skipped_messages' = 0
    /\ current_failed_inserts' = 0
    /\ remaining' = <<>>
    /\ idx' = 0
    /\ messages' = <<>>
    /\ i' = 0
    /\ conversation_success' = TRUE
    /\ tasks' = <<>>
    /\ convFailed' = 0
    /\ convAwaited' = 0

\* ------------------------------------------------------------- actions
\* main(): the constructor (load_progress) and process_export_folder up to its loop
StartRun ==
    /\ pc = "off"
    /\ run < MaxRuns
    /\ run' = run + 1
    /\ loadedOk' = (progressFile.state # "corrupt")
    /\ interruptedAt' = NoInterrupt
    /\ LET loaded == load_progress(progressFile)
           rem == SelectSeq(export, LAMBDA c : c.id \notin loaded.convs)
       IN IF rem = <<>>
          THEN \* "All conversations already processed!": summary, no save
               /\ Exited(0)
          ELSE /\ pc' = "loop"
               /\ exitCode' = -1
               /\ processed_conversations' = loaded.convs
               /\ processed_messages' = loaded.msgs
               /\ remaining' = rem
               /\ idx' = 1
               /\ UNCHANGED <<current_processed_messages, current_skipped_messages,
                              current_failed_inserts, messages, i, conversation_success,
                              tasks, convFailed, convAwaited>>
    /\ UNCHANGED <<export, progressFile, store, clean, fullyAwaited, wholeBatchHashes>>
    /\ UNCHANGED notIngestVars

\* mutant: a conversation without storable messages is left unmarked
mark_conversation_skipped(conversation_id) ==
    processed_conversations

\* mark_conversation_processed, lines 120-123: the add (the save follows it)
mark_conversation_processed(conversation_id) ==
    processed_conversations \cup {conversation_id}

\* process_conversation from its call to its first await (or its early return)
BeginConversation ==
    /\ pc = "loop"
    /\ idx <= Len(remaining)
    /\ is_conversation_processed(remaining[idx].id) \/ ~ExtractionRaises(remaining[idx])
    /\ LET conversation == remaining[idx]
           conv_id == conversation.id
           msgs == extract_messages_from_conversation(conversation)
       IN IF is_conversation_processed(conv_id)
          THEN /\ idx' = idx + 1
               /\ UNCHANGED <<progressFile, pc, processed_conversations, messages, i,
                              conversation_success, tasks, current_skipped_messages,
                              convFailed, convAwaited, fullyAwaited>>
          ELSE IF msgs = <<>>
          THEN \* "Still mark as processed to avoid re-checking"
               /\ current_skipped_messages' = current_skipped_messages + Len(msgs)
               /\ processed_conversations' = mark_conversation_processed(conv_id)
               /\ progressFile' = save_progress(processed_conversations', processed_messages)
               /\ idx' = idx + 1
               /\ fullyAwaited' = fullyAwaited \cup {conv_id}
               /\ UNCHANGED <<pc, messages, i, conversation_success, tasks,
                              convFailed, convAwaited>>
          ELSE /\ messages' = msgs
               /\ i' = 0
               /\ conversation_success' = TRUE
               /\ tasks' = Dispatch(msgs, 0)
               /\ pc' = "gather"
               /\ convFailed' = 0
               /\ convAwaited' = 0
               /\ UNCHANGED <<progressFile, processed_conversations, idx,
                              current_skipped_messages, fullyAwaited>>
    /\ UNCHANGED <<export, store, run, exitCode, processed_messages,
                   current_processed_messages, current_failed_inserts, remaining,
                   loadedOk, clean, wholeBatchHashes, interruptedAt>>
    /\ UNCHANGED notIngestVars

\* mutant: the handler of lines 454-457 leaves the loop
AfterExceptionBreak(k) ==
    Len(remaining) + 1

\* lines 454-457: `continue`, the loop goes on with the next conversation
AfterException(k) ==
    k + 1

\* process_conversation raises out of extract_messages_from_conversation: the
\* handler of lines 454-457 reports it and the loop goes on
ConversationRaises ==
    /\ pc = "loop"
    /\ idx <= Len(remaining)
    /\ ~is_conversation_processed(remaining[idx].id)
    /\ ExtractionRaises(remaining[idx])
    /\ idx' = AfterException(idx)
    /\ UNCHANGED <<export, progressFile, store, run, exitCode, pc,
                   processed_conversations, processed_messages,
                   current_processed_messages, current_skipped_messages,
                   current_failed_inserts, remaining, messages, i,
                   conversation_success, tasks, loadedOk, clean, convFailed,
                   convAwaited, fullyAwaited, wholeBatchHashes, interruptedAt>>
    /\ UNCHANGED notIngestVars

\* mutant: the hash is marked whatever the attempt gave
MarkedWhateverOutcome(h, outcome) ==
    processed_messages \cup {h}

\* lines 306-314: the hash is marked only when the insert returned data
MarkedAfterAttempt(h, outcome) ==
    IF outcome = "ok" THEN processed_messages \cup {h} ELSE processed_messages

\* table(...).insert(data).execute(): one row more on success, nothing on an error
InsertedAfterAttempt(h, outcome) ==
    IF outcome = "ok" THEN [store EXCEPT ![h] = @ + 1] ELSE store

wait_time_constant(attempt) ==
    1

\* line 323: wait_time = 2 ** attempt
wait_time(attempt) ==
    2 ^ attempt

\* line 330: the pause after the last failed attempt
final_pause == 5

\* one round of the retry loop of store_message_with_retry for a suspended task:
\* get_embedding, the insert, and on an exception the backoff sleep or the give up
\* mutant: a retry does not call get_embedding again
TaskAfterAttemptOneEmbedding(t, outcome) ==
    IF outcome = "ok"
    THEN [t EXCEPT !.st = "done", !.calls = 1, !.result = TRUE]
    ELSE IF t.attempt < max_retries - 1
    THEN [t EXCEPT !.attempt = @ + 1, !.calls = 1]
    ELSE [t EXCEPT !.st = "done", !.calls = 1, !.result = FALSE]

\* attempt is the loop variable (it keeps its last value when the call returns),
\* calls the get_embedding calls made so far, waits the asyncio.sleep calls made
TaskAfterAttempt(t, outcome) ==
    IF outcome = "ok"
    THEN [t EXCEPT !.st = "done", !.calls = @ + 1, !.result = TRUE]
    ELSE IF t.attempt < max_retries - 1
    THEN [t EXCEPT !.attempt = @ + 1, !.calls = @ + 1,
                   !.waits = Append(@, wait_time(t.attempt))]
    ELSE [t EXCEPT !.st = "done", !.calls = @ + 1, !.result = FALSE,
                   !.waits = Append(@, final_pause)]

AttemptOutcomes == {"ok", "embed_error", "insert_error"}

Attempt(j, outcome) ==
    /\ pc = "gather"
    /\ j \in DOMAIN tasks
    /\ tasks[j].st = "pending"
    /\ tasks' = [tasks EXCEPT ![j] = TaskAfterAttempt(tasks[j], outcome)]
    /\ store' = InsertedAfterAttempt(tasks[j].hash, outcome)
    /\ processed_messages' = MarkedAfterAttempt(tasks[j].hash, outcome)
    /\ UNCHANGED <<export, progressFile, run, exitCode, pc, processed_conversations,
                   current_processed_messages, current_skipped_messages,
                   current_failed_inserts, remaining, idx, messages, i,
                   conversation_success, loadedOk, clean, convFailed, convAwaited,
                   fullyAwaited, wholeBatchHashes, interruptedAt>>
    /\ UNCHANGED notIngestVars

\* mutant: the results of the batch never clear conversation_success
TallySuccessIgnoringResults(success) ==
    success

\* lines 384-392: conversation_success after the results of a batch
TallySuccess(success) ==
    success /\ \A j \in DOMAIN tasks : tasks[j].result

\* lines 382-399: gather has returned; tally, save every fifth batch, sleep(1)
TallyBatch ==
    /\ pc = "gather"
    /\ AllDone
    /\ current_processed_messages' =
           current_processed_messages + Count(TRUE)
    /\ current_failed_inserts' = current_failed_inserts + Count(FALSE)
    /\ conversation_success' = TallySuccess(conversation_success)
    /\ progressFile' = IF SaveDue(i)
                       THEN save_progress(processed_conversations, processed_messages)
                       ELSE progressFile
    /\ tasks' = <<>>
    /\ pc' = "sleep"
    /\ convFailed' = convFailed + Count(FALSE)
    /\ convAwaited' = convAwaited + Len(tasks)
    /\ wholeBatchHashes' = wholeBatchHashes \cup
           {tasks[j].hash : j \in {k \in DOMAIN tasks : tasks[k].result}}
    /\ UNCHANGED <<export, store, run, exitCode, processed_conversations,
                   processed_messages, current_skipped_messages, remaining, idx,
                   messages, i, loadedOk, clean, fullyAwaited, interruptedAt>>
    /\ UNCHANGED notIngestVars

MoreBatches == i + batch_size < Len(messages)

\* the for loop of line 364 goes round: the next batch is dispatched
NextBatch ==
    /\ pc = "sleep"
    /\ MoreBatches
    /\ i' = i + batch_size
    /\ tasks' = Dispatch(messages, i + batch_size)
    /\ pc' = "gather"
    /\ UNCHANGED <<export, progressFile, store, run, exitCode, processed_conversations,
                   processed_messages, current_processed_messages,
                   current_skipped_messages, current_failed_inserts, remaining, idx,
                   messages, conversation_success, loadedOk, clean, convFailed,
                   convAwaited, fullyAwaited, wholeBatchHashes, interruptedAt>>
    /\ UNCHANGED notIngestVars

\* lines 401-406: mark_conversation_processed (add, then save_progress) on success
MarkIfSuccessful(conv_id) ==
    IF conversation_success
    THEN processed_conversations \cup {conv_id}
    ELSE processed_conversations

FinishConversation ==
    /\ pc = "sleep"
    /\ ~MoreBatches
    /\ processed_conversations' = MarkIfSuccessful(remaining[idx].id)
    /\ progressFile' = IF conversation_success
                       THEN save_progress(processed_conversations', processed_messages)
                       ELSE progressFile
    /\ fullyAwaited' = fullyAwaited \cup {remaining[idx].id}
    /\ idx' = idx + 1
    /\ pc' = "loop"
    /\ messages' = <<>>
    /\ i' = 0
    /\ conversation_success' = TRUE
    /\ convFailed' = 0
    /\ convAwaited' = 0
    /\ UNCHANGED <<export, store, run, exitCode, processed_messages,
                   current_processed_messages, current_skipped_messages,
                   current_failed_inserts, remaining, tasks, loadedOk, clean,
                   wholeBatchHashes, interruptedAt>>
    /\ UNCHANGED notIngestVars

\* lines 459-461 and 559-561: final save, summary, exit code
EndRun ==
    /\ pc = "loop"
    /\ idx > Len(remaining)
    /\ progressFile' = save_progress(processed_conversations, processed_messages)
    /\ Exited(IF current_failed_inserts > 0 THEN 1 ELSE 0)
    /\ UNCHANGED <<export, store, run, loadedOk, clean, fullyAwaited,
                   wholeBatchHashes, interruptedAt>>
    /\ UNCHANGED notIngestVars

\* ------------------------------------------------- ways a run is cut short
InConversation == pc \in {"gather", "sleep"}

CurrentConv == IF InConversation THEN remaining[idx].id ELSE "none"

Snapshot(kind) ==
    [at |-> kind, conv |-> CurrentConv,
     convs |-> processed_conversations, msgs |-> processed_messages]

\* the next step of the main coroutine calls save_progress
SaveIsNext ==
    \/ /\ pc = "loop"
       /\ idx > Len(remaining)
    \/ /\ pc = "loop"
       /\ idx <= Len(remaining)
       /\ ~is_conversation_processed(remaining[idx].id)
       /\ ~ExtractionRaises(remaining[idx])
       /\ extract_messages_from_conversation(remaining[idx]) = <<>>
    \/ /\ pc = "gather"
       /\ AllDone
       /\ SaveDue(i)
    \/ /\ pc = "sleep"
       /\ ~MoreBatches
       /\ conversation_success

\* SIGKILL, a crash, a power cut: no handler runs
Kill ==
    /\ pc # "off"
    /\ Exited(137)
    /\ clean' = FALSE
    /\ UNCHANGED <<export, progressFile, store, run, loadedOk, fullyAwaited,
                   wholeBatchHashes, interruptedAt>>
    /\ UNCHANGED notIngestVars

\* the same inside save_progress, between open(..., 'w') and the end of json.dump:
\* the file is left truncated
KillDuringSave ==
    /\ pc # "off"
    /\ SaveIsNext
    /\ progressFile' = CorruptFile
    /\ Exited(137)
    /\ clean' = FALSE
    /\ UNCHANGED <<export, store, run, loadedOk, fullyAwaited, wholeBatchHashes,
                   interruptedAt>>
    /\ UNCHANGED notIngestVars

\* mutant: the handler marks the conversation in progress before it saves
HandlerMarksCurrent ==
    save_progress(processed_conversations \cup ({CurrentConv} \ {"none"}),
                  processed_messages)

\* lines 450-453: the handler around process_conversation
KeyboardInterruptHandler ==
    save_progress(processed_conversations, processed_messages)

\* Ctrl-C while the main coroutine is suspended in gather or sleep: the event loop
\* cancels the main task, CancelledError is no KeyboardInterrupt (and no Exception),
\* so neither handler of process_export_folder runs and asyncio.run re-raises
InterruptAtAwait ==
    /\ InConversation
    /\ interruptedAt' = Snapshot("await")
    /\ Exited(130)
    /\ clean' = FALSE
    /\ UNCHANGED <<export, progressFile, store, run, loadedOk, fullyAwaited,
                   wholeBatchHashes>>
    /\ UNCHANGED notIngestVars

\* Ctrl-C raised as KeyboardInterrupt inside the synchronous code of
\* process_conversation: lines 450-453 save and re-raise, main exits 0
InterruptInTry ==
    /\ \/ pc = "loop" /\ idx <= Len(remaining)
       \/ pc = "gather" /\ AllDone
       \/ pc = "sleep"
    /\ interruptedAt' = Snapshot("try")
    /\ progressFile' = KeyboardInterruptHandler
    /\ Exited(0)
    /\ clean' = FALSE
    /\ UNCHANGED <<export, store, run, loadedOk, fullyAwaited, wholeBatchHashes>>
    /\ UNCHANGED notIngestVars

\* Ctrl-C raised in process_export_folder outside the try (lines 443-446, 459-461):
\* only main's handler runs, which saves nothing and exits 0
InterruptOutsideTry ==
    /\ pc = "loop"
    /\ interruptedAt' = Snapshot("outside")
    /\ Exited(0)
    /\ clean' = FALSE
    /\ UNCHANGED <<export, progressFile, store, run, loadedOk, fullyAwaited,
                   wholeBatchHashes>>
    /\ UNCHANGED notIngestVars

Next ==
    \/ StartRun
    \/ BeginConversation
    \/ ConversationRaises
    \/ \E j \in 1..batch_size, outcome \in AttemptOutcomes : Attempt(j, outcome)
    \/ TallyBatch
    \/ NextBatch
    \/ FinishConversation
    \/ EndRun
    \/ Kill
    \/ KillDuringSave
    \/ InterruptAtAwait
    \/ InterruptInTry
    \/ InterruptOutsideTry

Spec == Init /\ [][Next]_vars

\* ------------------------------------- src/memory/loader.py: one file loaded
\* chunks of one file (chunk_text returns them trimmed and longer than 10
\* characters); a chunk is told from the others by its position
MaxChunks == 6

file_batch_size == 5
chunk_max_retries == 3

\* what client.embeddings.create does
ServiceOutcomes == {"vector", "error"}

\* what table(...).insert(data).execute() does: rows back, no rows back, an exception
InsertOutcomes == {"data", "no_data", "raises"}

\* app/memory/utils.py get_embedding: the vector of the service, and [] when the
\* service raised (the exception is printed and swallowed)
app_get_embedding(service) ==
    IF service = "vector" THEN "vector" ELSE "empty"

\* store_chunk_with_retry as gather starts it: suspended in its first await
StartChunkTask(chunk) ==
    [chunk |-> chunk, st |-> "pending", attempt |-> 0, calls |-> 0,
     embedding |-> "none", result |-> FALSE, waits |-> <<>>]

DispatchChunks(offset) ==
    LET left == Len(chunks) - offset
        n == IF left < file_batch_size THEN left ELSE file_batch_size
    IN [j \in 1..n |-> StartChunkTask(chunks[offset + j])]

\* lines 216-240: the insert follows get_embedding whatever it returned
InsertIssued(embedding) ==
    TRUE

\* one round of the retry loop of store_chunk_with_retry
\* mutant: the loop has no last attempt
ChunkTaskNeverGivesUp(t, embedding, insert) ==
    IF InsertIssued(embedding) /\ insert = "data"
    THEN [t EXCEPT !.st = "done", !.calls = @ + 1, !.embedding = embedding,
                   !.result = TRUE]
    ELSE [t EXCEPT !.attempt = @ + 1, !.calls = @ + 1,
                   !.waits = Append(@, 2 ^ t.attempt)]

ChunkTaskAfterAttempt(t, embedding, insert) ==
    IF InsertIssued(embedding) /\ insert = "data"
    THEN [t EXCEPT !.st = "done", !.calls = @ + 1, !.embedding = embedding,
                   !.result = TRUE]
    ELSE IF t.attempt = chunk_max_retries - 1
    THEN [t EXCEPT !.st = "done", !.calls = @ + 1, !.result = FALSE]
    ELSE [t EXCEPT !.attempt = @ + 1, !.calls = @ + 1,
                   !.waits = Append(@, 2 ^ t.attempt)]

LoaderInit ==
    /\ export = <<[id |-> "c1", msgs |-> <<>>, mapping |-> "dict"]>>
    /\ IngestAtRest
    /\ chunks \in {[k \in 1..n |-> k] : n \in 0..MaxChunks}
    /\ loader_pc = "start"
    /\ chunk_i = 0
    /\ chunk_tasks = <<>>
    /\ memory_rows = {}
    /\ total_chunks = 0
    /\ successful_inserts = 0
    /\ failed_inserts = 0
    /\ skipped_chunks = 0
    /\ loader_exit = -1
    /\ inserts_issued = {}
    /\ OthersIdle

\* process_file up to its first gather, or its return when no chunk is valid
BeginFile ==
    /\ loader_pc = "start"
    /\ IF chunks = <<>>
       THEN /\ loader_pc' = "end"
            /\ UNCHANGED <<chunk_tasks, total_chunks>>
       ELSE /\ chunk_tasks' = DispatchChunks(0)
            /\ total_chunks' = total_chunks + Len(chunk_tasks')
            /\ loader_pc' = "gather"
    /\ UNCHANGED <<chunks, chunk_i, memory_rows, successful_inserts, failed_inserts,
                   skipped_chunks, loader_exit, inserts_issued>>
    /\ UNCHANGED notLoaderVars

StoreChunkAttempt(j, service, insert) ==
    /\ loader_pc = "gather"
    /\ j \in DOMAIN chunk_tasks
    /\ chunk_tasks[j].st = "pending"
    /\ LET embedding == app_get_embedding(service)
       IN /\ chunk_tasks' = [chunk_tasks EXCEPT
                                ![j] = ChunkTaskAfterAttempt(@, embedding, insert)]
          /\ inserts_issued' = IF InsertIssued(embedding)
                               THEN inserts_issued \cup {embedding}
                               ELSE inserts_issued
          /\ memory_rows' =
                 IF InsertIssued(embedding) /\ insert = "data"
                 THEN memory_rows \cup
                          {[content |-> chunk_tasks[j].chunk, embedding |-> embedding]}
                 ELSE memory_rows
    /\ UNCHANGED <<chunks, loader_pc, chunk_i, total_chunks, successful_inserts,
                   failed_inserts, skipped_chunks, loader_exit>>
    /\ UNCHANGED notLoaderVars

ChunksDone == \A j \in DOMAIN chunk_tasks : chunk_tasks[j].st = "done"

ChunkCount(r) == Cardinality({j \in DOMAIN chunk_tasks : chunk_tasks[j].result = r})

\* lines 305-317: gather has returned; tally, and sleep(1) if a batch is left
TallyChunks ==
    /\ loader_pc = "gather"
    /\ ChunksDone
    /\ successful_inserts' = successful_inserts + ChunkCount(TRUE)
    /\ failed_inserts' = failed_inserts + ChunkCount(FALSE)
    /\ chunk_tasks' = <<>>
    /\ loader_pc' = IF chunk_i + file_batch_size < Len(chunks) THEN "sleep" ELSE "end"
    /\ UNCHANGED <<chunks, chunk_i, memory_rows, total_chunks, skipped_chunks,
                   loader_exit, inserts_issued>>
    /\ UNCHANGED notLoaderVars

\* the for loop of process_file goes round
NextChunkBatch ==
    /\ loader_pc = "sleep"
    /\ chunk_i' = chunk_i + file_batch_size
    /\ chunk_tasks' = DispatchChunks(chunk_i + file_batch_size)
    /\ total_chunks' = total_chunks + Len(chunk_tasks')
    /\ loader_pc' = "gather"
    /\ UNCHANGED <<chunks, memory_rows, successful_inserts, failed_inserts,
                   skipped_chunks, loader_exit, inserts_issued>>
    /\ UNCHANGED notLoaderVars

\* main of loader.py after process_file: summary, exit code
LoaderExit ==
    /\ loader_pc = "end"
    /\ loader_exit' = IF failed_inserts > 0 THEN 1 ELSE 0
    /\ loader_pc' = "off"
    /\ UNCHANGED <<chunks, chunk_i, chunk_tasks, memory_rows, total_chunks,
                   successful_inserts, failed_inserts, skipped_chunks, inserts_issued>>
    /\ UNCHANGED notLoaderVars

LoaderNext ==
    \/ BeginFile
    \/ \E j \in 1..file_batch_size, service \in ServiceOutcomes,
          insert \in InsertOutcomes : StoreChunkAttempt(j, service, insert)
    \/ TallyChunks
    \/ NextChunkBatch
    \/ LoaderExit

LoaderSpec == LoaderInit /\ [][LoaderNext]_vars

\* ------------------------- the constructor alone, on any progress document
\* a JSON object as a record of the keys it has
NoKey == [k \in {} |-> {}]

\* 'processed_conversations' and 'processed_messages', each there or not; beside
\* them nothing, the keys save_progress adds, or a key unknown to the program
ProgressDocuments ==
    {[state |-> "ok"] @@ c @@ m @@ o :
        c \in {NoKey} \cup [convs : SUBSET ConvIds],
        m \in {NoKey} \cup [msgs : SUBSET Hashes],
        o \in {NoKey, [last_updated |-> "now", stats |-> "stats"],
               [comment |-> "text"]}}

ProgressFiles == {NoFile, CorruptFile} \cup ProgressDocuments

LoadInit ==
    /\ export = <<[id |-> "c1", msgs |-> <<>>, mapping |-> "dict"]>>
    /\ progressFile \in ProgressFiles
    /\ NoIngestProcess
    /\ LoaderIdle
    /\ OthersIdle

\* SparkyExportProcessor.__init__: the empty sets, then load_progress
Construct ==
    /\ pc = "off"
    /\ run = 0
    /\ run' = 1
    /\ pc' = "constructed"
    /\ loadedOk' = (progressFile.state # "corrupt")
    /\ processed_conversations' = load_progress(progressFile).convs
    /\ processed_messages' = load_progress(progressFile).msgs
    /\ UNCHANGED <<export, progressFile, store, exitCode, current_processed_messages,
                   current_skipped_messages, current_failed_inserts, remaining, idx,
                   messages, i, conversation_success, tasks, clean, convFailed,
                   convAwaited, fullyAwaited, wholeBatchHashes, interruptedAt>>
    /\ UNCHANGED notIngestVars

LoadNext == Construct

LoadSpec == LoadInit /\ [][LoadNext]_vars

\* --------------------------------- src/memory/loader.py: chunk_text alone
\* a text has at most this many words
MaxWords == 4

\* `len(chunk.strip()) > 10` of the final filter
min_chars == 10

\* what the injected counter gives for a word, and how many characters it has;
\* `stop` tells a word that ends in '.', '!' or '?'
WordTokens == {0, 1, 4}
WordChars == {3, 11}
Words == [tokens : WordTokens, chars : WordChars, stop : BOOLEAN]

\* the limits a call is made with, and what the counter may charge for a space
TokenLimits == {1, 2}
SpaceTokens == {0, 1}

Texts == UNION {[1..n -> Words] : n \in 0..MaxWords}

RECURSIVE SumTokens(_)
SumTokens(ws) ==
    IF ws = <<>> THEN 0 ELSE Head(ws).tokens + SumTokens(Tail(ws))

RECURSIVE SumChars(_)
SumChars(ws) ==
    IF ws = <<>> THEN 0 ELSE Head(ws).chars + SumChars(Tail(ws))

\* the single spaces between the words of a string
Joints(ws) == IF ws = <<>> THEN 0 ELSE Len(ws) - 1

\* count_tokens of the words joined by single spaces, `trailing` spaces behind:
\* the counter is additive over the characters of the string
count_tokens(ws, trailing) ==
    SumTokens(ws) + space_tokens * (Joints(ws) + trailing)

\* len(s.strip()) of the words joined by single spaces
StrippedLen(ws) == SumChars(ws) + Joints(ws)

\* re.split(r'(?<=[.!?])\s+', text): a sentence ends behind a word that stops
RECURSIVE SplitSentences(_, _)
SplitSentences(ws, sentence) ==
    IF ws = <<>>
    THEN IF sentence = <<>> THEN <<>> ELSE <<sentence>>
    ELSE IF Head(ws).stop /\ Tail(ws) # <<>>
    THEN <<Append(sentence, Head(ws))>> \o SplitSentences(Tail(ws), <<>>)
    ELSE SplitSentences(Tail(ws), Append(sentence, Head(ws)))

\* lines 170-180: the words of a sentence that is over the limit
RECURSIVE PackWords(_, _, _)
PackWords(words, k, st) ==
    IF k > Len(words)
    THEN st
    ELSE LET word == words[k]
             word_tokens == count_tokens(<<word>>, 1)
         IN PackWords(words, k + 1,
                IF st.temp_tokens + word_tokens > max_tokens /\ st.temp_chunk # <<>>
                THEN [chunks |-> Append(st.chunks, st.temp_chunk),
                      temp_chunk |-> <<word>>,
                      temp_tokens |-> word_tokens]
                ELSE [chunks |-> st.chunks,
                      temp_chunk |-> Append(st.temp_chunk, word),
                      temp_tokens |-> st.temp_tokens + word_tokens])

\* line 190: the chunk a sentence opens when it does not fit behind the previous one
StartChunkWithOverlap(previous, sentence) ==
    IF previous = <<>> THEN sentence ELSE <<previous[Len(previous)]>> \o sentence

StartChunk(previous, sentence) ==
    sentence

\* lines 158-194: one round of the loop over the sentences
SentenceStep(st, sentence) ==
    LET sentence_tokens == count_tokens(sentence, 0)
    IN IF sentence_tokens > max_tokens
       THEN LET saved == IF st.current_chunk # <<>>
                         THEN Append(st.chunks, st.current_chunk)
                         ELSE st.chunks
                packed == PackWords(sentence, 1,
                              [chunks |-> saved, temp_chunk |-> <<>>, temp_tokens |-> 0])
            IN IF packed.temp_chunk # <<>>
               THEN [chunks |-> packed.chunks,
                     current_chunk |-> packed.temp_chunk,
                     current_tokens |-> packed.temp_tokens]
               ELSE [chunks |-> packed.chunks,
                     current_chunk |-> IF st.current_chunk # <<>>
                                       THEN <<>> ELSE st.current_chunk,
                     current_tokens |-> IF st.current_chunk # <<>>
                                        THEN 0 ELSE st.current_tokens]
       ELSE IF st.current_tokens + sentence_tokens > max_tokens
       THEN [chunks |-> IF st.current_chunk # <<>>
                        THEN Append(st.chunks, st.current_chunk)
                        ELSE st.chunks,
             current_chunk |-> StartChunk(st.current_chunk, sentence),
             current_tokens |-> sentence_tokens]
       ELSE [chunks |-> st.chunks,
             current_chunk |-> st.current_chunk \o sentence,
             current_tokens |-> st.current_tokens + sentence_tokens]

RECURSIVE PackSentences(_, _, _)
PackSentences(sentences, k, st) ==
    IF k > Len(sentences)
    THEN st
    ELSE PackSentences(sentences, k + 1, SentenceStep(st, sentences[k]))

\* lines 199-203: the filter over the chunks of the loop
\* mutant: the filter asks for more than the minimum
MinLengthFilterStricter(cs) ==
    SelectSeq(cs, LAMBDA chunk : chunk # <<>> /\ StrippedLen(chunk) > min_chars + 5)

MinLengthFilter(cs) ==
    SelectSeq(cs, LAMBDA chunk : chunk # <<>> /\ StrippedLen(chunk) > min_chars)

\* lines 146-147: the text that fits as a whole is returned as it is
SingleChunk(cleaned) ==
    IF cleaned # <<>> THEN <<cleaned>> ELSE <<>>

\* chunk_text(text, max_tokens) on the cleaned text, a chunk being the words it holds
chunk_text(cleaned) ==
    IF cleaned = <<>>
    THEN <<>>
    ELSE IF count_tokens(cleaned, 0) <= max_tokens
    THEN SingleChunk(cleaned)
    ELSE LET st == PackSentences(SplitSentences(cleaned, <<>>), 1,
                       [chunks |-> <<>>, current_chunk |-> <<>>, current_tokens |-> 0])
             all == IF st.current_chunk # <<>>
                    THEN Append(st.chunks, st.current_chunk)
                    ELSE st.chunks
         IN MinLengthFilter(all)

ChunkerInit ==
    /\ export = <<[id |-> "c1", msgs |-> <<>>, mapping |-> "dict"]>>
    /\ IngestAtRest
    /\ LoaderIdle
    /\ WatcherIdle
    /\ text \in Texts
    /\ max_tokens \in TokenLimits
    /\ space_tokens \in SpaceTokens
    /\ chunker_pc = "called"
    /\ valid_chunks = <<>>

ChunkText ==
    /\ chunker_pc = "called"
    /\ valid_chunks' = chunk_text(text)
    /\ chunker_pc' = "returned"
    /\ UNCHANGED <<text, max_tokens, space_tokens>>
    /\ UNCHANGED notChunkerVars

ChunkerNext == ChunkText

ChunkerSpec == ChunkerInit /\ [][ChunkerNext]_vars

\* ------------------------------- scripts/watch_and_load.py: the watcher
\* the queue holds at most this many paths, a file gives at most this many chunks
MaxQueue == 2
MaxInserts == 1
\* executions counted per file and content
MaxStored == 2

\* the watch folder: two files to ingest, the side file of one, a file to ignore
Paths == {"notes.md", "LOG.TXT", "notes.md.meta.json", "paper.pdf"}

\* the order in which watch_folder.iterdir() gives them
FileOrder == <<"LOG.TXT", "notes.md", "notes.md.meta.json", "paper.pdf">>

\* what a file holds; "gone" when it is not there (deleted, unreadable)
FileContents == {"one", "two"}
DiskStates ==
    {d \in [Paths -> FileContents \cup {"gone"}] :
        /\ d["paper.pdf"] = "one"
        /\ d["LOG.TXT"] # "gone"
        /\ d["notes.md.meta.json"] # "two"}

\* no execution has stored anything yet
NeverStored == [path \in Paths |-> 0]

\* Path.suffix and str.lower()
path_suffix(path) ==
    CASE path = "notes.md" -> ".md"
      [] path = "LOG.TXT" -> ".TXT"
      [] path = "notes.md.meta.json" -> ".json"
      [] OTHER -> ".pdf"

lower(s) == IF s = ".TXT" THEN ".txt" ELSE s

supported_extensions == {".txt", ".md", ".json"}

\* filepath.name.endswith('.meta.json')
EndsWithMetaJson(path) == path = "notes.md.meta.json"

\* filepath.with_suffix(filepath.suffix + '.meta.json'), "none" when the folder
\* never holds it
meta_file(path) == IF path = "notes.md" THEN "notes.md.meta.json" ELSE "none"

\* hashlib.md5 of the content
md5(content) == IF content = "one" THEN "d1" ELSE "d2"

\* get_file_hash: the read raises on a file that is gone, and "" is returned
get_file_hash(path) ==
    IF disk[path] = "gone" THEN "" ELSE md5(disk[path])

\* Python values, each with its type
PyStr(s) == [t |-> "str", v |-> s]
PyInt(n) == [t |-> "int", v |-> n]
PyList(l) == [t |-> "list", v |-> l]

\* json.dump(..., default=str): str, int and list are written as JSON string,
\* number and array; a value of any other type is written as the string str(value)
ToJson(value) ==
    CASE value.t = "str" -> [t |-> "string", v |-> value.v]
      [] value.t = "int" -> [t |-> "number", v |-> value.v]
      [] value.t = "list" -> [t |-> "array", v |-> value.v]
      [] OTHER -> [t |-> "string", v |-> value.v]

\* json.load: JSON string, number and array are read as str, int and list
FromJson(value) ==
    CASE value.t = "string" -> [t |-> "str", v |-> value.v]
      [] value.t = "number" -> [t |-> "int", v |-> value.v]
      [] OTHER -> [t |-> "list", v |-> value.v]

json_dump(mapping) ==
    [k \in DOMAIN mapping |->
        [field \in DOMAIN mapping[k] |-> ToJson(mapping[k][field])]]

json_load(doc) ==
    [k \in DOMAIN doc |-> [field \in DOMAIN doc[k] |-> FromJson(doc[k][field])]]

\* load_processed_log: {} for a log that is not there or is not JSON
load_processed_log(file) ==
    IF file.state = "ok" THEN json_load(file.doc) ELSE NoEntries

save_processed_log(mapping) ==
    [state |-> "ok", doc |-> json_dump(mapping)]

\* processed_files[file_key].get('hash', '')
stored_hash(entry) ==
    IF "hash" \in DOMAIN entry THEN entry.hash.v ELSE ""

should_process_file_by_suffix(path) ==
    IF lower(path_suffix(path)) \notin supported_extensions
    THEN FALSE
    ELSE IF path \in DOMAIN processed_files
            /\ stored_hash(processed_files[path]) = get_file_hash(path)
    THEN FALSE
    ELSE TRUE

should_process_file(path) ==
    IF lower(path_suffix(path)) \notin supported_extensions
    THEN FALSE
    ELSE IF EndsWithMetaJson(path)
    THEN FALSE
    ELSE IF path \in DOMAIN processed_files
            /\ stored_hash(processed_files[path]) = get_file_hash(path)
    THEN FALSE
    ELSE TRUE

\* load_metadata: the defaults, updated from the side file when it is there
load_metadata(path) ==
    IF meta_file(path) # "none" /\ disk[meta_file(path)] # "gone"
    THEN [source |-> PyStr("test"), tags |-> PyList(<<"async">>),
          importance |-> PyInt(2)]
    ELSE [source |-> PyStr("manual"), tags |-> PyList(<<>>), importance |-> PyInt(1)]

\* line 176: datetime.now().isoformat()
processed_at_datetime(now) ==
    [t |-> "datetime", v |-> now]

processed_at(now) ==
    PyStr(now)

\* line 190: what process_file_async returns
process_result_needs_insert(successful, failed) ==
    failed = 0 /\ successful > 0

process_result(successful, failed) ==
    failed = 0

WatcherInit ==
    /\ export = <<[id |-> "c1", msgs |-> <<>>, mapping |-> "dict"]>>
    /\ IngestAtRest
    /\ LoaderIdle
    /\ ChunkerIdle
    /\ disk \in DiskStates
    /\ logFile \in {[state |-> "absent", doc |-> NoEntries],
                    [state |-> "corrupt", doc |-> NoEntries]}
    /\ processed_files = load_processed_log(logFile)
    /\ processing_queue = <<>>
    /\ existing_files = <<>>
    /\ watcher_pc = "start"
    /\ filepath = "none"
    /\ metadata = NoMetadata
    /\ returned = NoCall
    /\ unchanged = FALSE
    /\ stored_times = NeverStored
    /\ event_lost = FALSE

\* the folder changes under the watcher
WriteFile(path, content) ==
    /\ watcher_pc # "off"
    /\ disk[path] # content
    /\ [disk EXCEPT ![path] = content] \in DiskStates
    /\ disk' = [disk EXCEPT ![path] = content]
    /\ unchanged' = (unchanged /\ path # filepath)
    /\ stored_times' = [stored_times EXCEPT ![path] = 0]
    /\ event_lost' = FALSE
    /\ UNCHANGED <<logFile, processed_files, processing_queue, existing_files,
                   watcher_pc, filepath, metadata, returned>>
    /\ UNCHANGED <<total_chunks, successful_inserts, failed_inserts, skipped_chunks>>
    /\ UNCHANGED notWatcherVars

\* on_created / on_modified in the observer's thread: queue_file_for_processing;
\* asyncio.get_event_loop() gives a loop or raises RuntimeError, which is passed over
FileEvent(path, loop_found) ==
    /\ watcher_pc # "off"
    /\ disk[path] # "gone"
    /\ (should_process_file(path) /\ loop_found) => Len(processing_queue) < MaxQueue
    /\ processing_queue' = IF should_process_file(path) /\ loop_found
                           THEN Append(processing_queue, path)
                           ELSE processing_queue
    /\ event_lost' = (should_process_file(path) /\ ~loop_found)
    /\ UNCHANGED <<disk, logFile, processed_files, existing_files, watcher_pc,
                   filepath, metadata, returned, unchanged, stored_times>>
    /\ UNCHANGED <<total_chunks, successful_inserts, failed_inserts, skipped_chunks>>
    /\ UNCHANGED notWatcherVars

\* process_existing_files, lines 251-254
ScanExisting ==
    /\ watcher_pc = "start"
    /\ existing_files' =
           SelectSeq(FileOrder, LAMBDA f : disk[f] # "gone" /\ should_process_file(f))
    /\ watcher_pc' = "existing"
    /\ event_lost' = FALSE
    /\ UNCHANGED <<disk, logFile, processed_files, processing_queue, filepath,
                   metadata, returned, unchanged, stored_times>>
    /\ UNCHANGED <<total_chunks, successful_inserts, failed_inserts, skipped_chunks>>
    /\ UNCHANGED notWatcherVars

\* process_file_async up to `await self.loader.process_file(...)`
CallProcessFile(path) ==
    /\ filepath' = path
    /\ metadata' = load_metadata(path)
    /\ total_chunks' = 0
    /\ successful_inserts' = 0
    /\ failed_inserts' = 0
    /\ skipped_chunks' = 0
    /\ unchanged' = TRUE
    /\ event_lost' = FALSE
    /\ UNCHANGED <<disk, logFile, processed_files, returned, stored_times>>
    /\ UNCHANGED notWatcherVars

BeginExisting ==
    /\ watcher_pc = "existing"
    /\ existing_files # <<>>
    /\ existing_files' = Tail(existing_files)
    /\ watcher_pc' = "await_existing"
    /\ CallProcessFile(Head(existing_files))
    /\ UNCHANGED processing_queue

\* process_existing_files is through: processing_loop
EnterLoop ==
    /\ watcher_pc = "existing"
    /\ existing_files = <<>>
    /\ watcher_pc' = "loop"
    /\ event_lost' = FALSE
    /\ UNCHANGED <<disk, logFile, processed_files, processing_queue, existing_files,
                   filepath, metadata, returned, unchanged, stored_times>>
    /\ UNCHANGED <<total_chunks, successful_inserts, failed_inserts, skipped_chunks>>
    /\ UNCHANGED notWatcherVars

\* processing_loop: queue.get() gave a path
BeginQueued ==
    /\ watcher_pc = "loop"
    /\ processing_queue # <<>>
    /\ processing_queue' = Tail(processing_queue)
    /\ watcher_pc' = "await_loop"
    /\ CallProcessFile(Head(processing_queue))
    /\ UNCHANGED existing_files

\* loader.process_file has returned with its counters; lines 173-190
FinishProcessFile(successful, failed) ==
    /\ watcher_pc \in {"await_existing", "await_loop"}
    /\ successful + failed <= MaxInserts
    /\ stored_times[filepath] < MaxStored
    /\ stored_times' = IF successful > 0 /\ unchanged
                       THEN [stored_times EXCEPT ![filepath] = @ + 1]
                       ELSE stored_times
    /\ unchanged' = FALSE
    /\ event_lost' = FALSE
    /\ successful_inserts' = successful
    /\ failed_inserts' = failed
    /\ total_chunks' = successful + failed
    /\ processed_files' =
           (filepath :> [processed_at |-> processed_at("now"),
                         hash |-> PyStr(get_file_hash(filepath)),
                         chunks |-> PyInt(successful),
                         source |-> metadata.source,
                         tags |-> metadata.tags,
                         importance |-> metadata.importance]) @@ processed_files
    /\ logFile' = save_processed_log(processed_files')
    /\ returned' = [file |-> filepath, value |-> process_result(successful, failed)]
    /\ watcher_pc' = IF watcher_pc = "await_existing" THEN "existing" ELSE "loop"
    /\ UNCHANGED <<disk, processing_queue, existing_files, filepath, metadata,
                   skipped_chunks>>
    /\ UNCHANGED notWatcherVars

\* the watcher is stopped and started again: a new MemoryFileHandler on the same log
Restart ==
    /\ watcher_pc # "off"
    /\ processed_files' = load_processed_log(logFile)
    /\ processing_queue' = <<>>
    /\ existing_files' = <<>>
    /\ watcher_pc' = "start"
    /\ filepath' = "none"
    /\ metadata' = NoMetadata
    /\ returned' = NoCall
    /\ total_chunks' = 0
    /\ successful_inserts' = 0
    /\ failed_inserts' = 0
    /\ skipped_chunks' = 0
    /\ unchanged' = FALSE
    /\ event_lost' = FALSE
    /\ UNCHANGED <<disk, logFile, stored_times>>
    /\ UNCHANGED notWatcherVars

WatcherNext ==
    \/ \E path \in Paths, content \in FileContents \cup {"gone"} :
          WriteFile(path, content)
    \/ \E path \in Paths, loop_found \in BOOLEAN : FileEvent(path, loop_found)
    \/ ScanExisting
    \/ BeginExisting
    \/ EnterLoop
    \/ BeginQueued
    \/ \E successful \in 0..MaxInserts, failed \in 0..MaxInserts :
          FinishProcessFile(successful, failed)
    \/ Restart

WatcherSpec == WatcherInit /\ [][WatcherNext]_vars

\* ------------------------- either program is run: the ingestion or the loader
EitherInit == Init \/ LoaderInit

EitherNext ==
    \/ LoaderIdle /\ Next
    \/ LoaderNext

EitherSpec == EitherInit /\ [][EitherNext]_vars

\* ------------- runs that nothing cuts short, every external call returning
\* the steps of one ingestion process that no signal interrupts
RunStep ==
    \/ BeginConversation
    \/ ConversationRaises
    \/ \E j \in 1..batch_size, outcome \in AttemptOutcomes : Attempt(j, outcome)
    \/ TallyBatch
    \/ NextBatch
    \/ FinishConversation
    \/ EndRun

UninterruptedNext ==
    \/ LoaderIdle /\ StartRun
    \/ LoaderIdle /\ RunStep
    \/ LoaderNext

\* the event loop resumes a coroutine whose await has returned or raised, and
\* every external call (embedding service, table insert, sleep) returns or raises
UninterruptedSpec ==
    /\ EitherInit
    /\ [][UninterruptedNext]_vars
    /\ WF_vars((LoaderIdle /\ RunStep) \/ LoaderNext)

\* ------------------------------------------------------------ properties
NoDuplicateRecord == \A h \in Hashes : store[h] <= 1

\* C1: whatever the placement of two messages of equal content (same batch, other
\* batch, other conversation, other run on the same progress file), the store
\* never holds two records of their content hash.  Stated for runs that were
\* never killed or interrupted, which the claim covers.
C1_OneRecordPerHash ==
    clean => NoDuplicateRecord

\* C2: after process_export_folder has run twice to its end over the same export
\* and progress file, the store holds no two records of one content hash.
C2_TwoRunsSameAsOne ==
    (clean /\ run = 2 /\ pc = "off") => NoDuplicateRecord

\* C3: a store operation started for a hash already in processed_messages is
\* finished at once with success and no embedding call, the step changes neither
\* the store nor processed_messages, and the finished operation never acts later.
C3_AlreadyStoredIsNoOp ==
    [][ /\ (pc # "gather" /\ pc' = "gather") =>
             /\ \A j \in DOMAIN tasks' :
                    tasks'[j].hash \in processed_messages =>
                        /\ tasks'[j].st = "done"
                        /\ tasks'[j].result
                        /\ tasks'[j].calls = 0
             /\ store' = store
             /\ processed_messages' = processed_messages
        /\ (pc = "gather" /\ pc' = "gather") =>
             \A j \in DOMAIN tasks : tasks[j].st = "done" => tasks'[j] = tasks[j]
      ]_vars

C3_Witness ==
    /\ pc = "gather"
    /\ \E j \in DOMAIN tasks :
          /\ tasks[j].st = "done"
          /\ tasks[j].calls = 0
          /\ tasks[j].hash \in processed_messages
          /\ store[tasks[j].hash] = 1
    /\ \E j \in DOMAIN tasks : tasks[j].calls > 0

C5_LedgerImpliesRecord ==
    \A h \in processed_messages \cup progressFile.msgs : store[h] >= 1

C5_Witness ==
    /\ run = 2
    /\ pc = "gather"
    /\ \E h \in progressFile.msgs : h \in processed_messages
    /\ processed_messages # progressFile.msgs

\* C6: a run that loaded a readable progress file makes no embedding call for a
\* hash that was stored in a batch some run had awaited and tallied.
C6_WholeBatchesNotRedone ==
    loadedOk => \A j \in DOMAIN tasks :
                    tasks[j].calls > 0 => tasks[j].hash \notin wholeBatchHashes

\* C7: once a batch has been awaited and tallied, and before the next one is
\* dispatched, the progress file holds every hash of processed_messages.
C7_SavedAfterEveryBatch ==
    pc = "sleep" =>
        /\ progressFile.state = "ok"
        /\ processed_messages \subseteq progressFile.msgs

\* C8: after a user abort, the progress file holds every content hash and every
\* conversation id that was in memory at the moment of the abort.
C8_InterruptSavesLedger ==
    interruptedAt.at # "none" =>
        /\ interruptedAt.msgs \subseteq progressFile.msgs
        /\ interruptedAt.convs \subseteq progressFile.convs

\* C9: no conversation is marked complete, in memory or in the progress file,
\* unless all its batches were awaited by some call of process_conversation;
\* the conversation in progress at a user abort is not in the file afterwards.
C9_InterruptMarksNothing ==
    /\ processed_conversations \cup progressFile.convs \subseteq fullyAwaited
    /\ (interruptedAt.at # "none" /\ interruptedAt.conv # "none") =>
           interruptedAt.conv \notin progressFile.convs

\* an abort caught by the handler while a batch had been awaited but not tallied
C9_Witness ==
    /\ interruptedAt.at = "try"
    /\ interruptedAt.conv # "none"
    /\ interruptedAt.conv \notin fullyAwaited
    /\ interruptedAt.msgs # {}
    /\ progressFile = save_progress(interruptedAt.convs, interruptedAt.msgs)

\* C10: a run that found the progress file malformed makes no embedding call.
C10_CorruptFileFailsFast ==
    ~loadedOk => \A j \in DOMAIN tasks : tasks[j].calls = 0

\* C11: whatever interrupts a save, what load_progress reads from the progress
\* file afterwards holds every conversation id and every content hash that it
\* read from the file before: the file goes from one complete saved state to the
\* next and is never left truncated.
C11_SaveIsAtomic ==
    [][ /\ load_progress(progressFile).convs \subseteq load_progress(progressFile').convs
        /\ load_progress(progressFile).msgs \subseteq load_progress(progressFile').msgs
      ]_vars

\* C12: a store operation that succeeded on attempt k+1 (attempt = k, counted
\* from 0, after k failed attempts, k < max_retries) returned success, its hash is
\* in processed_messages and it made exactly k+1 embedding calls; an operation
\* still retrying after k failed attempts has made exactly k calls.
C12_SuccessAfterRetries ==
    \A j \in DOMAIN tasks :
        /\ (tasks[j].st = "pending") => tasks[j].calls = tasks[j].attempt
        /\ (tasks[j].st = "done" /\ tasks[j].result /\ tasks[j].calls > 0) =>
               /\ tasks[j].attempt < max_retries
               /\ tasks[j].calls = tasks[j].attempt + 1
               /\ tasks[j].hash \in processed_messages

\* max_retries = 3: two failed attempts, the third stored the message
C12_Witness ==
    \E j \in DOMAIN tasks :
        /\ tasks[j].st = "done"
        /\ tasks[j].result
        /\ tasks[j].attempt = 2
        /\ tasks[j].calls = 3
        /\ tasks[j].hash \in processed_messages
        /\ store[tasks[j].hash] = 1

\* C13: a store operation that returned failure after max_retries failed
\* attempts leaves its content hash out of processed_messages.
C13_FailedLeavesHashUnmarked ==
    \A j \in DOMAIN tasks :
        (tasks[j].st = "done" /\ ~tasks[j].result) =>
            /\ tasks[j].calls = max_retries
            /\ tasks[j].hash \notin processed_messages

\* C14: in the loader's store writer an attempt whose embedding call failed is a
\* failed attempt that issues no insert (app_get_embedding("error") is what
\* the insert would carry), and no chunk is reported stored by such an attempt.
C14_EmbeddingFailureNeverStored ==
    /\ app_get_embedding("error") \notin inserts_issued
    /\ \A j \in DOMAIN chunk_tasks :
           (chunk_tasks[j].st = "done" /\ chunk_tasks[j].result) =>
               chunk_tasks[j].embedding = app_get_embedding("vector")

\* C15: no insert is issued with an empty embedding vector and no row of the
\* memory table holds one.
C15_NoEmptyEmbeddingInserted ==
    /\ "empty" \notin inserts_issued
    /\ \A row \in memory_rows : row.embedding # "empty"

\* C16: when a conversation ends with failed messages, or its processing raises,
\* the loop goes on with the next remaining conversation, and a process that was
\* neither killed nor interrupted ends only when the loop has gone past every
\* conversation that was not complete at its start.
C16_FailureDoesNotStopRun ==
    [][ /\ (pc = "sleep" /\ pc' = "loop") =>
               /\ idx' = idx + 1
               /\ remaining' = remaining
        /\ (/\ pc = "loop" /\ pc' = "loop"
            /\ idx <= Len(remaining)
            /\ ~is_conversation_processed(remaining[idx].id)
            /\ ExtractionRaises(remaining[idx])) =>
               /\ idx' = idx + 1
               /\ remaining' = remaining
        /\ (pc # "off" /\ pc' = "off" /\ exitCode' \in {0, 1}
               /\ interruptedAt'.at = "none") =>
               idx > Len(remaining)
      ]_vars

\* the first conversation ended with a failed message and the second one is
\* being stored in the same run
C16_Witness ==
    /\ pc = "gather"
    /\ idx = 2
    /\ current_failed_inserts > 0
    /\ remaining[1].id \notin processed_conversations
    /\ \E j \in DOMAIN tasks : tasks[j].calls > 0

\* C17: a call of process_conversation for a conversation that is not yet marked
\* and has no storable message adds exactly its id to processed_conversations,
\* dispatches no store operation (so no embedding call) and inserts nothing.
C17_EmptyConversationCompleted ==
    [][ (/\ pc = "loop" /\ pc' # "off"
         /\ idx <= Len(remaining)
         /\ ~is_conversation_processed(remaining[idx].id)
         /\ ~ExtractionRaises(remaining[idx])
         /\ extract_messages_from_conversation(remaining[idx]) = <<>>) =>
            /\ processed_conversations' = processed_conversations \cup {remaining[idx].id}
            /\ remaining[idx].id \in load_progress(progressFile').convs
            /\ pc' = "loop"
            /\ tasks' = <<>>
            /\ store' = store
            /\ processed_messages' = processed_messages
            /\ current_failed_inserts' = current_failed_inserts
      ]_vars

\* a conversation of nodes that are all too short was marked, the next one is
\* being stored
C17_Witness ==
    /\ pc = "gather"
    /\ idx = 2
    /\ remaining[1].msgs # <<>>
    /\ extract_messages_from_conversation(remaining[1]) = <<>>
    /\ remaining[1].id \in processed_conversations
    /\ remaining[1].id \in progressFile.convs
    /\ remaining[1].id # remaining[2].id
    /\ \A h \in Hashes : store[h] = 0

\* C18: a call of process_conversation for a conversation whose id is in
\* processed_conversations extracts nothing, dispatches no store operation (no
\* embedding call, no insert) and changes neither the two ledger sets, nor the
\* progress file, nor the session counters: the loop goes to the next one.
C18_CompletedConversationUntouched ==
    [][ (/\ pc = "loop" /\ pc' # "off"
         /\ idx <= Len(remaining)
         /\ remaining[idx].id \in processed_conversations) =>
            /\ pc' = "loop"
            /\ idx' = idx + 1
            /\ messages' = messages
            /\ tasks' = <<>>
            /\ store' = store
            /\ processed_conversations' = processed_conversations
            /\ processed_messages' = processed_messages
            /\ progressFile' = progressFile
            /\ current_processed_messages' = current_processed_messages
            /\ current_skipped_messages' = current_skipped_messages
            /\ current_failed_inserts' = current_failed_inserts
      ]_vars

\* two conversations of one id: the first was completed in this run, the call
\* for the second has returned and its message was not stored
C18_Witness ==
    /\ pc = "loop"
    /\ idx = 3
    /\ remaining[1].id = remaining[2].id
    /\ remaining[2].id \in processed_conversations
    /\ \E k \in DOMAIN remaining[2].msgs :
           /\ remaining[2].msgs[k] \in Contents
           /\ store[generate_content_hash(remaining[2].msgs[k])] = 0
    /\ current_processed_messages > 0

\* C19: a session in which a store operation was counted as failed does not
\* exit with code 0, whether it ends at the end of the export or by a user
\* interrupt (the claim asks for code 1).
C19_ExitCodeTellsFailure ==
    [][ (pc # "off" /\ pc' = "off" /\ current_failed_inserts > 0) =>
            exitCode' # 0
      ]_vars

\* C20: after the constructor, with no progress file both sets are empty; with
\* a well-formed file each set holds what the file lists under its key and is
\* empty when the file lacks the key, whatever other keys the file has; in both
\* cases the load is no failure.
C20_AbsentStateIsEmpty ==
    pc = "constructed" =>
        /\ progressFile.state = "absent" =>
               /\ loadedOk
               /\ processed_conversations = {}
               /\ processed_messages = {}
        /\ progressFile.state = "ok" =>
               /\ loadedOk
               /\ processed_conversations =
                      IF "convs" \in DOMAIN progressFile THEN progressFile.convs ELSE {}
               /\ processed_messages =
                      IF "msgs" \in DOMAIN progressFile THEN progressFile.msgs ELSE {}

\* a file that lists conversations, has no 'processed_messages' and has a key the
\* program does not know
C20_Witness ==
    /\ pc = "constructed"
    /\ progressFile.state = "ok"
    /\ DOMAIN progressFile = {"state", "convs", "comment"}
    /\ progressFile.convs # {}
    /\ processed_conversations = progressFile.convs
    /\ processed_messages = {}

C22_ChunkLongEnough ==
    chunker_pc = "returned" =>
        \A k \in DOMAIN valid_chunks : StrippedLen(valid_chunks[k]) > min_chars

\* the words of the chunks, one chunk behind the other
RECURSIVE Flatten(_)
Flatten(cs) ==
    IF cs = <<>> THEN <<>> ELSE Head(cs) \o Flatten(Tail(cs))

\* `part` is what is left of `whole` when some of its places are taken out
RECURSIVE IsSubSeq(_, _)
IsSubSeq(part, whole) ==
    IF part = <<>> THEN TRUE
    ELSE IF whole = <<>> THEN FALSE
    ELSE IF Head(part) = Head(whole) /\ IsSubSeq(Tail(part), Tail(whole)) THEN TRUE
    ELSE IsSubSeq(part, Tail(whole))

RECURSIVE SumChunkTokens(_)
SumChunkTokens(cs) ==
    IF cs = <<>> THEN 0 ELSE count_tokens(Head(cs), 0) + SumChunkTokens(Tail(cs))

\* the chunks share nothing: their words, in order, are places of the text, each
\* taken once, and their counts sum to no more than the count of the text
ChunksDoNotOverlap ==
    /\ IsSubSeq(Flatten(valid_chunks), text)
    /\ SumChunkTokens(valid_chunks) <= count_tokens(text, 0)

\* no word of the text counts more than max_tokens, and no chunk was dropped
NoOversizedWord == \A k \in DOMAIN text : text[k].tokens <= max_tokens
NothingDropped == Flatten(valid_chunks) = text

C24_ShouldProcessExactly ==
    watcher_pc # "off" =>
        \A f \in Paths :
            should_process_file(f) <=>
                /\ lower(path_suffix(f)) \in {".txt", ".md", ".json"}
                /\ ~EndsWithMetaJson(f)
                /\ \/ f \notin DOMAIN processed_files
                   \/ get_file_hash(f) # processed_files[f].hash.v

\* a recorded file unchanged, a recorded file changed, and the side file of a file
C24_Witness ==
    /\ "notes.md" \in DOMAIN processed_files
    /\ "LOG.TXT" \in DOMAIN processed_files
    /\ ~should_process_file("notes.md")
    /\ should_process_file("LOG.TXT")
    /\ disk["notes.md.meta.json"] # "gone"
    /\ ~should_process_file("notes.md.meta.json")

\* process_file_async has returned and no other call was begun since
CallReturned ==
    /\ watcher_pc \in {"existing", "loop"}
    /\ returned.file # "none"
    /\ returned.file = filepath

\* C25: when process_file_async(f) has returned and the loader counts no failed
\* insert, it returned True and processed_files holds an entry under f's relative
\* path with the source, tags and importance of f's metadata and with chunks equal
\* to the loader's successful inserts
C25_ZeroFailedIsRecorded ==
    (CallReturned /\ failed_inserts = 0) =>
        /\ returned.value = TRUE
        /\ filepath \in DOMAIN processed_files
        /\ processed_files[filepath].source = metadata.source
        /\ processed_files[filepath].tags = metadata.tags
        /\ processed_files[filepath].importance = metadata.importance
        /\ processed_files[filepath].chunks = PyInt(successful_inserts)

C25_Witness ==
    /\ CallReturned
    /\ failed_inserts = 0
    /\ successful_inserts = 1
    /\ filepath = "notes.md"
    /\ metadata.source = PyStr("test")
    /\ "LOG.TXT" \in DOMAIN processed_files

\* C26: the mapping that a new MemoryFileHandler loads from a log written by
\* save_processed_log equals the processed_files that were saved
C26_LogRoundTrip ==
    (CallReturned /\ logFile.state = "ok") =>
        load_processed_log(logFile) = processed_files

C26_Witness ==
    /\ CallReturned
    /\ logFile.state = "ok"
    /\ DOMAIN load_processed_log(logFile) = {"notes.md", "LOG.TXT"}
    /\ load_processed_log(logFile)["notes.md"].tags = PyList(<<"async">>)
    /\ load_processed_log(logFile)["LOG.TXT"].chunks = PyInt(1)

\* C27: the store operations outstanding at any moment are those of one batch, the
\* one at the current offset, at most 3 in process_conversation and at most 5 in
\* process_file: none of a later batch is there before gather has returned
C27_OneBatchAtATime ==
    /\ Len(tasks) <= batch_size
    /\ pc # "gather" => tasks = <<>>
    /\ pc = "gather" =>
           \A j \in DOMAIN tasks :
               /\ i + j <= Len(messages)
               /\ tasks[j].hash = generate_content_hash(messages[i + j])
    /\ Len(chunk_tasks) <= file_batch_size
    /\ loader_pc # "gather" => chunk_tasks = <<>>
    /\ loader_pc = "gather" =>
           \A j \in DOMAIN chunk_tasks :
               /\ chunk_i + j <= Len(chunks)
               /\ chunk_tasks[j].chunk = chunks[chunk_i + j]

\* the second batch of a file is in flight
C27_Witness ==
    /\ loader_pc = "gather"
    /\ chunk_i = file_batch_size
    /\ \E j \in DOMAIN chunk_tasks : chunk_tasks[j].st = "pending"

\* the second batch of a conversation is in flight
C27_IngestBatchInFlight ==
    /\ pc = "gather"
    /\ i = batch_size
    /\ \E j \in DOMAIN tasks : tasks[j].st = "pending"

\* the hashes of the store operations that this step saw return True
CompletedInStep ==
    {tasks[j].hash : j \in {k \in DOMAIN tasks :
        /\ k \in DOMAIN tasks'
        /\ tasks[k].st = "pending"
        /\ tasks'[k].st = "done"
        /\ tasks'[k].result}}

\* C28: a progress file that save_progress has written holds exactly the sets in
\* memory at the call; those are the sets load_progress read at startup together
\* with every completion marked since, in whatever order the operations of a batch
\* finished
C28_SaveWritesMemory ==
    [][/\ (progressFile' # progressFile /\ progressFile'.state = "ok") =>
              IF pc' = "off"
              THEN /\ progressFile'.convs = processed_conversations
                   /\ progressFile'.msgs = processed_messages
              ELSE /\ progressFile'.convs = processed_conversations'
                   /\ progressFile'.msgs = processed_messages'
       /\ (pc = "off" /\ pc' # "off") =>
              /\ processed_conversations' = load_progress(progressFile).convs
              /\ processed_messages' = load_progress(progressFile).msgs
       /\ (pc # "off" /\ pc' # "off") =>
              /\ processed_messages' = processed_messages \cup CompletedInStep
              /\ processed_conversations \subseteq processed_conversations'
              /\ processed_conversations' \ processed_conversations
                     \subseteq {remaining[k].id : k \in DOMAIN remaining \cap {idx}}]_vars

\* a second run has saved what it loaded together with what it stored itself: two
\* hashes, one of them the only result of this run
C28_Witness ==
    /\ run = 2
    /\ pc = "sleep"
    /\ i = 0
    /\ progressFile.state = "ok"
    /\ progressFile.msgs = processed_messages
    /\ Cardinality(processed_messages) = 2
    /\ current_processed_messages = 1

\* C29: the ledger only grows. Within a run no step takes an element out of
\* processed_messages or processed_conversations, and marking what is already there
\* changes nothing; across runs on the same progress file a conversation that is
\* Completed (listed in the file) stays so for every later run
C29_LedgerOnlyGrows ==
    [][/\ (pc # "off" /\ pc' # "off") =>
              /\ processed_messages \subseteq processed_messages'
              /\ processed_conversations \subseteq processed_conversations'
              /\ CompletedInStep \subseteq processed_messages =>
                     processed_messages' = processed_messages
       /\ load_progress(progressFile).convs \subseteq load_progress(progressFile').convs
       /\ (pc = "off" /\ pc' # "off") =>
              load_progress(progressFile).convs \subseteq processed_conversations'
      ]_vars

\* C30: in every progress file that save_progress has written, each conversation
\* listed in processed_conversations has the hashes of all its storable messages
\* listed in processed_messages
C30_CompletedMeansAllStored ==
    progressFile.state = "ok" =>
        \A k \in DOMAIN export :
            export[k].id \in progressFile.convs =>
                \A m \in DOMAIN extract_messages_from_conversation(export[k]) :
                    generate_content_hash(extract_messages_from_conversation(export[k])[m])
                        \in progressFile.msgs

\* the waits of a store operation so far: 2^a seconds after failed attempt a, for
\* every failed attempt that another attempt follows
BackoffSoFar(t, retries) ==
    /\ t.st = "pending" => Len(t.waits) = t.attempt
    /\ \A a \in 0..(retries - 2) : a + 1 <= Len(t.waits) => t.waits[a + 1] = 2 ^ a
    /\ (t.st = "done" /\ ~t.result) => (t.calls = retries /\ t.attempt = retries - 1)
    /\ t.calls = retries => t.st = "done"

\* C31: a store writer waits 2^a seconds after failed attempt a when another
\* attempt follows (1 s, then 2 s), and after the last failed attempt it makes no
\* further attempt and returns failure
C31_ExponentialBackoff ==
    /\ \A j \in DOMAIN tasks : BackoffSoFar(tasks[j], max_retries)
    /\ \A j \in DOMAIN chunk_tasks : BackoffSoFar(chunk_tasks[j], chunk_max_retries)

\* a message stored at the third attempt, after waits of 1 s and 2 s
C31_Witness ==
    \E j \in DOMAIN tasks :
        /\ tasks[j].st = "done"
        /\ tasks[j].result
        /\ tasks[j].waits = <<1, 2>>

\* the embedding calls and the attempts of a store operation are capped
AttemptsCapped(t, retries) ==
    /\ t.calls <= retries
    /\ t.attempt <= retries - 1
    /\ Len(t.waits) <= retries

\* process_export_folder has returned: every conversation of the export is marked
\* in the saved ledger (Completed), or every batch of it was awaited and it is left
\* unmarked (PartiallyFailed), or its processing raised and it is left unmarked
EveryConversationSettled ==
    \A k \in DOMAIN export :
        \/ export[k].id \in progressFile.convs
        \/ export[k].id \in fullyAwaited
        \/ ExtractionRaises(export[k])

RunEnded == pc = "off" /\ exitCode \in {0, 1}

AtRest == pc = "off" /\ loader_pc = "off"

\* C32: a store operation makes at most max_retries attempts (so at most that many
\* embedding calls and inserts); a run that nothing interrupts, every external call
\* returning or raising, therefore reaches its end, each conversation of the export
\* Completed or left unmarked after its last batch, and the loader reaches its exit
C32_WritersAndRunsTerminate ==
    /\ [](/\ \A j \in DOMAIN tasks : AttemptsCapped(tasks[j], max_retries)
          /\ \A j \in DOMAIN chunk_tasks :
                 AttemptsCapped(chunk_tasks[j], chunk_max_retries)
          /\ (pc = "off" /\ run >= 1) => (RunEnded /\ EveryConversationSettled)
          /\ (loader_pc = "off" /\ ~LoaderIdle) => loader_exit \in {0, 1})
    /\ (~AtRest) ~> AtRest

\* a run ended after a store operation used up its three attempts
C32_Witness ==
    /\ RunEnded
    /\ exitCode = 1
    /\ \E k \in DOMAIN export :
           export[k].id \in fullyAwaited /\ export[k].id \notin progressFile.convs

\* the content hashes of the storable messages of the export
StorableHashes ==
    UNION {{generate_content_hash(export[k].msgs[n]) :
               n \in {m \in DOMAIN export[k].msgs : export[k].msgs[m] \in Contents}} :
           k \in DOMAIN export}

DistinctIds == \A k, l \in DOMAIN export : export[k].id = export[l].id => k = l

NoNullMapping == \A k \in DOMAIN export : ~ExtractionRaises(export[k])

ExportIsComplete ==
    /\ progressFile.state = "ok"
    /\ \A k \in DOMAIN export : export[k].id \in progressFile.convs
    /\ StorableHashes \subseteq progressFile.msgs

\* C33: under repeated runs on the same progress file, once the embedding service
\* and the store have stopped failing the export gets complete: a run that went to
\* its end without a failed store operation leaves every conversation of the export
\* in processed_conversations and every storable message's hash in
\* processed_messages
C33_RunWithoutFailureCompletes ==
    (RunEnded /\ run >= 1 /\ exitCode = 0) => ExportIsComplete

\* what holds: the same when the ids of the export are distinct and no conversation
\* has a null mapping
C33_HoldsForDistinctIds ==
    (DistinctIds /\ NoNullMapping) => C33_RunWithoutFailureCompletes

\* C34: a file whose processing left a failed chunk is not recorded: when
\* process_file_async has returned with failed inserts, should_process_file still
\* accepts the file (it stays eligible for retry)
C34_FailedFileStaysEligible ==
    (CallReturned /\ failed_inserts > 0 /\ disk[filepath] # "gone") =>
        should_process_file(filepath)

C36_AcceptedEventIsQueued ==
    ~event_lost

\* the loop of process_export_folder goes on to the next conversation without a
\* store operation dispatched for the one in hand
PassedOver ==
    /\ pc = "loop"
    /\ pc' = "loop"
    /\ idx <= Len(remaining)
    /\ idx' = idx + 1

\* C37: in an uninterrupted run every conversation whose id was not in
\* processed_conversations at the start of the run (the conversations of
\* remaining) has its storable messages dispatched: it is passed over only when it
\* has none, whatever ids the conversations of the export share
C37_EveryRemainingConversationDispatched ==
    [][/\ PassedOver => extract_messages_from_conversation(remaining[idx]) = <<>>
       /\ (pc = "loop" /\ pc' = "gather") =>
              /\ messages' = extract_messages_from_conversation(remaining[idx])
              /\ \A n \in 1..Len(messages') :
                     n <= batch_size =>
                         tasks'[n].hash = generate_content_hash(messages'[n])]_vars

\* the messages that the length filter of extract_messages_from_conversation
\* dropped from the conversations of a list
RECURSIVE DroppedMessages(_)
DroppedMessages(convs) ==
    IF convs = <<>> THEN 0
    ELSE Len(Head(convs).msgs) - Len(extract_messages_from_conversation(Head(convs)))
             + DroppedMessages(Tail(convs))

\* C38: at the end of a run the skipped counter equals the number of messages
\* dropped by the length filter (stated where the ids of the export are distinct, so
\* that every conversation of remaining was extracted in this run)
C38_SkippedCountsDropped ==
    (pc = "loop" /\ idx > Len(remaining) /\ DistinctIds) =>
        current_skipped_messages = DroppedMessages(remaining)

\* the ways to cut a sequence of words into chunks, none empty, in order
RECURSIVE Segmentations(_)
Segmentations(ws) ==
    IF ws = <<>> THEN {<<>>}
    ELSE UNION {{<<SubSeq(ws, 1, k)>> \o rest :
                    rest \in Segmentations(SubSeq(ws, k + 1, Len(ws)))} :
                k \in 1..Len(ws)}

\* what is left of the chunks when some of trimmed length min_chars or less are
\* taken out
RECURSIVE WithShortOnesDropped(_)
WithShortOnesDropped(cs) ==
    IF cs = <<>> THEN {<<>>}
    ELSE LET rest == WithShortOnesDropped(Tail(cs))
         IN {<<Head(cs)>> \o r : r \in rest}
                \cup (IF StrippedLen(Head(cs)) <= min_chars THEN rest ELSE {})

====
